---- MODULE Spec2Model ----
(***************************************************************************)
(* rex: a miniature pattern language.  tokenize (src/src/lex.rs) turns a   *)
(* pattern into tokens, Parser (src/src/parser.rs) turns the tokens into   *)
(* an Expr (src/src/expr.rs), Eval (src/src/eval.rs) matches an Expr       *)
(* against a target string.  The three stages run one after the other on   *)
(* one pattern and one target.                                             *)
(*                                                                         *)
(* A string is a sequence of characters; a character is a one-element      *)
(* TLA+ string, except "U+3000" (IDEOGRAPHIC SPACE, 3 bytes in UTF-8).     *)
(***************************************************************************)
EXTENDS Integers, Sequences, FiniteSets, TLC

VARIABLES
    pattern,    \* the pattern text handed to Parser::from
    it,         \* tokenize: number of characters the char_indices iterator has yielded
    tokens,     \* tokenize: the Vec<Token> built so far; then Parser.tokens
    lexErr,     \* tokenize: <<>> or <<ch>>, the character of the Err(..) returned
    pcurr,      \* Parser.curr
    pstack,     \* the active Parser::parse calls, outermost first
    presult,    \* what the outermost Parser::parse returned
    target,     \* Eval.target
    ecurr,      \* Eval.curr (a byte offset into target)
    estack,     \* the active Eval::eval calls, outermost first
    eret,       \* the value the Eval::eval call that just returned gave its caller
    eresult,    \* what the outermost Eval::eval returned, or "panic"
    phase       \* "lex", "lexed", "parse", "parsed", "eval", "done"

vars == <<pattern, it, tokens, lexErr, pcurr, pstack, presult,
          target, ecurr, estack, eret, eresult, phase>>

lexVars   == <<it, tokens, lexErr>>
parseVars == <<pcurr, pstack, presult>>
evalVars  == <<target, ecurr, estack, eret, eresult>>

----------------------------------------------------------------------------
(* Bounds of the model *)

\* patterns of up to MaxLexLen characters over LexChars are all tried
MaxLexLen == 3
\* patterns of up to MaxPatLen characters over PatChars are all tried
MaxPatLen == 5
\* targets of up to MaxTargetLen characters over TargetChars are all tried
MaxTargetLen == 2

LexChars == {"a", "b", "+", "*", ".", "(", ")", " ", "U+3000", "#"}
PatChars == {"a", "b", "+", "*", ".", "(", ")"}
TargetChars == {"a", "b"}

RECURSIVE SeqsUpTo(_, _)
SeqsUpTo(S, n) ==
    IF n = 0 THEN {<<>>}
    ELSE LET shorter == SeqsUpTo(S, n - 1)
         IN  shorter \cup {Append(s, c) : s \in {t \in shorter : Len(t) = n - 1}, c \in S}

\* the patterns of the repository's tests, and a few with a tab or a wide space
TestPatterns ==
    { <<"a","b","c","d">>,
      <<"a","*">>,
      <<"a"," ","+"," ","b">>,
      <<"a","a","b","b">>,
      <<"a","a","b","b","*">>,
      <<"6","9"," ","+"," ","2","3"," ","+"," ","7","9"," ","+"," ","5","9">>,
      <<"a",".","b",".","c",".","d">>,
      <<"(","a"," ","+"," ","b",")",".","(","c"," ","+"," ","d",")">>,
      <<"(","1"," ","+"," ","2",")",".","(","3"," ","+"," ","4",")","*">>,
      <<"a","*"," ","+"," ","(","3"," ","+"," ","4","*",")">>,
      <<"(","1"," ","+"," ","2",")",".","(","3"," ","+"," ","4",")","*","(","1",".","3",")">>,
      <<"a","\t","b">>,
      <<"\t","a">>,
      <<"a"," ","U+3000","b","c">>,
      <<"(","a"," ","+">>,
      <<"(","a","+","b",")","*","*">> }

Patterns == SeqsUpTo(LexChars, MaxLexLen) \cup SeqsUpTo(PatChars, MaxPatLen) \cup TestPatterns

TestTargets ==
    { <<"a","b","c","d">>, <<"a","b","c","d","e">>, <<"a","b","c">>, <<"a","a","a","a">> }

Targets == SeqsUpTo(TargetChars, MaxTargetLen) \cup TestTargets

----------------------------------------------------------------------------
(* Characters *)

\* 'a'..='z' | '0'..='9'
IsAlnum(ch) ==
    ch \in {"a","b","c","d","e","f","g","h","i","j","k","l","m","n","o","p","q",
            "r","s","t","u","v","w","x","y","z",
            "0","1","2","3","4","5","6","7","8","9"}

\* char::is_whitespace, on the characters of the model
IsWhitespace(ch) == ch \in {" ", "\t", "\n", "U+3000"}

\* UTF-8 length of a character
len_utf8(ch) == IF ch = "U+3000" THEN 3 ELSE 1

\* str::char_indices: the byte offset of the p-th character (p from 1) of s
RECURSIVE char_index(_, _)
char_index(s, p) ==
    IF p <= 1 THEN 0 ELSE char_index(s, p - 1) + len_utf8(s[p - 1])

\* the characters of s whose bytes lie in the byte range lo..=hi
RECURSIVE ByteSlice(_, _, _, _)
ByteSlice(s, p, lo, hi) ==
    IF p > Len(s) THEN <<>>
    ELSE IF char_index(s, p) >= lo /\ char_index(s, p) + len_utf8(s[p]) - 1 <= hi
         THEN <<s[p]>> \o ByteSlice(s, p + 1, lo, hi)
         ELSE ByteSlice(s, p + 1, lo, hi)

----------------------------------------------------------------------------
(* Tokens and expressions *)

\* TokenKind::X.to_token((0, index))
to_token(kind, text, index) == [kind |-> kind, text |-> text, pos |-> <<0, index>>]

Alphabet(text) == [kind |-> "Alphabet", text |-> text]
Star(e)        == [kind |-> "Star", e |-> e]
Plus(lhs, rhs) == [kind |-> "Plus", lhs |-> lhs, rhs |-> rhs]
Dot(lhs, rhs)  == [kind |-> "Dot", lhs |-> lhs, rhs |-> rhs]

NoExpr == [kind |-> "None"]

----------------------------------------------------------------------------
(* tokenize, one action per arm of the match in its loop *)

Lexing == phase = "lex" /\ lexErr = <<>>
\* it.next() yields Some((index, ch))
HasNext == Lexing /\ it < Len(pattern)
ch == pattern[it + 1]
index == char_index(pattern, it + 1)

\* the inner `while let Some(..) = it.peek()` loops: how many characters from
\* position p on the loop consumes with it.next() before it breaks
RECURSIVE WhitespaceRun(_, _)
WhitespaceRun(s, p) ==
    IF p <= Len(s) /\ IsWhitespace(s[p]) THEN 1 + WhitespaceRun(s, p + 1) ELSE 0

RECURSIVE AlnumRun(_, _)
AlnumRun(s, p) ==
    IF p <= Len(s) /\ IsAlnum(s[p]) THEN 1 + AlnumRun(s, p + 1) ELSE 0

SymbolKind(c) ==
    CASE c = "+" -> "Plus"
      [] c = "*" -> "Star"
      [] c = "(" -> "LeftParen"
      [] c = ")" -> "RightParen"
      [] c = "." -> "Dot"

\* which characters start the whitespace arm: the pattern ' '
StartsWhitespaceArm(c) == c = " "

LexSymbol(c) ==
    /\ HasNext
    /\ ch = c
    /\ tokens' = Append(tokens, to_token(SymbolKind(c), <<>>, index))
    /\ it' = it + 1
    /\ UNCHANGED <<pattern, lexErr, parseVars, evalVars, phase>>

LexSpace ==
    /\ HasNext
    /\ StartsWhitespaceArm(ch)
    /\ it' = it + 1 + WhitespaceRun(pattern, it + 2)
    /\ UNCHANGED <<pattern, tokens, lexErr, parseVars, evalVars, phase>>

LexPlus       == LexSymbol("+")
LexStar       == LexSymbol("*")
LexLeftParen  == LexSymbol("(")
LexRightParen == LexSymbol(")")
LexDot        == LexSymbol(".")

\* the end of the run as the code computes it: one more per following character
AlphabetEnd(s, p) == char_index(s, p) + AlnumRun(s, p + 1)

LexAlphabet ==
    /\ HasNext
    /\ IsAlnum(ch)
    /\ LET end == AlphabetEnd(pattern, it + 1)
       IN  /\ tokens' = Append(tokens,
                  to_token("Alphabet", ByteSlice(pattern, 1, index, end), index))
           /\ it' = it + 1 + AlnumRun(pattern, it + 2)
    /\ UNCHANGED <<pattern, lexErr, parseVars, evalVars, phase>>

LexUnknown ==
    /\ HasNext
    /\ ~StartsWhitespaceArm(ch)
    /\ ch \notin {"+", "*", "(", ")", "."}
    /\ ~IsAlnum(ch)
    /\ lexErr' = <<ch>>
    /\ it' = it + 1
    /\ phase' = "lexed"
    /\ UNCHANGED <<pattern, tokens, parseVars, evalVars>>

\* it.next() yields None: Ok(tokens)
LexEnd ==
    /\ Lexing
    /\ it = Len(pattern)
    /\ phase' = "lexed"
    /\ UNCHANGED <<pattern, lexVars, parseVars, evalVars>>

----------------------------------------------------------------------------
(* Parser *)

NoToken == [kind |-> "None", text |-> <<>>, pos |-> <<0, 0>>]

NoResult  == [status |-> "none", expr |-> NoExpr, err |-> ""]
Ok(e)     == [status |-> "Ok", expr |-> e, err |-> ""]
Err(e)    == [status |-> "Err", expr |-> NoExpr, err |-> e]

\* Parser::peek: Option<&Token>
peek == IF pcurr = Len(tokens) THEN NoToken ELSE tokens[pcurr + 1]

\* next without `self.curr += 1`
next_stuck(curr) == curr

\* Parser::next: the cursor after the call (the token returned is peek)
next(curr) == IF curr = Len(tokens) THEN curr ELSE curr + 1

\* a Parser::parse call: where it stands and the lhs it has accumulated
Frame(pc, lhs) == [pc |-> pc, lhs |-> lhs]
Top(st) == st[Len(st)]
Pop(st) == SubSeq(st, 1, Len(st) - 1)
SetTop(st, f) == Append(Pop(st), f)

Parsing == phase = "parse" /\ pstack # <<>>

\* parse_star_expr that consumes the '*' and returns lhs as it is
parse_star_expr_unwrapped(lhs) == lhs

\* Ok(Expr::Star(Box::new(lhs)))
parse_star_expr(lhs) == Star(lhs)

\* parse_plus_expr with its operands the wrong way round
parse_plus_expr_swapped(lhs, rhs) == Plus(rhs, lhs)

\* Ok(Expr::Plus(Box::new(lhs), Box::new(self.parse()?))), rhs what self.parse() gave
parse_plus_expr(lhs, rhs) == Plus(lhs, rhs)

\* Ok(Expr::Dot(Box::new(lhs), Box::new(self.parse()?)))
parse_dot_expr(lhs, rhs) == Dot(lhs, rhs)

\* the check without its None arm: the end of the input closes the group
closing_paren_lenient(tok) ==
    IF tok # NoToken /\ tok.kind # "RightParen" THEN Err("ExpectedClosingParen")
    ELSE NoResult

\* the check parse_primary makes on the token after the inner expression
closing_paren(tok) ==
    IF tok = NoToken THEN Err("ExpectedClosingParen")
    ELSE IF tok.kind # "RightParen" THEN Err("ExpectedClosingParen")
    ELSE NoResult

\* Parser::from, then the caller's parser.parse()
ParserFrom ==
    /\ phase = "lexed"
    /\ IF lexErr # <<>>
       THEN /\ presult' = Err("Lexer")
            /\ phase' = "done"
            /\ UNCHANGED <<pcurr, pstack>>
       ELSE /\ pcurr' = 0
            /\ pstack' = <<Frame("primary", NoExpr)>>
            /\ phase' = "parse"
            /\ UNCHANGED presult
    /\ UNCHANGED <<pattern, lexVars, evalVars>>

\* an Err(..) leaves every active call through `?`
Fail(e) ==
    /\ presult' = Err(e)
    /\ pstack' = <<>>
    /\ phase' = "done"

\* the innermost parse call returns Ok(v) to the call that made it
Return(v) ==
    IF Len(pstack) = 1
    THEN /\ presult' = Ok(v)
         /\ pstack' = <<>>
         /\ phase' = "parsed"
    ELSE LET caller == pstack[Len(pstack) - 1]
             back ==
                 CASE caller.pc = "paren" -> Frame("close", v)
                   [] caller.pc = "plus"  -> Frame("loop", parse_plus_expr(caller.lhs, v))
                   [] caller.pc = "dot"   -> Frame("loop", parse_dot_expr(caller.lhs, v))
         IN  /\ pstack' = SetTop(Pop(pstack), back)
             /\ UNCHANGED <<presult, phase>>

\* parse_primary: match self.next()
PrimaryNone ==
    /\ Parsing /\ Top(pstack).pc = "primary"
    /\ peek = NoToken
    /\ pcurr' = next(pcurr)
    /\ Fail("ExpectedExpression")
    /\ UNCHANGED <<pattern, lexVars, evalVars>>

PrimaryAlphabet ==
    /\ Parsing /\ Top(pstack).pc = "primary"
    /\ peek.kind = "Alphabet"
    /\ pcurr' = next(pcurr)
    /\ pstack' = SetTop(pstack, Frame("loop", Alphabet(peek.text)))
    /\ UNCHANGED <<pattern, lexVars, presult, evalVars, phase>>

PrimaryLeftParen ==
    /\ Parsing /\ Top(pstack).pc = "primary"
    /\ peek.kind = "LeftParen"
    /\ pcurr' = next(pcurr)
    /\ pstack' = Append(SetTop(pstack, Frame("paren", NoExpr)), Frame("primary", NoExpr))
    /\ UNCHANGED <<pattern, lexVars, presult, evalVars, phase>>

PrimaryOther ==
    /\ Parsing /\ Top(pstack).pc = "primary"
    /\ peek.kind \in {"Plus", "Star", "Dot", "RightParen"}
    /\ pcurr' = next(pcurr)
    /\ Fail("ExpectedExpression")
    /\ UNCHANGED <<pattern, lexVars, evalVars>>

\* parse_primary after `let inner = self.parse()?`: match self.next()
PrimaryClose ==
    /\ Parsing /\ Top(pstack).pc = "close"
    /\ pcurr' = next(pcurr)
    /\ IF closing_paren(peek) # NoResult
       THEN Fail(closing_paren(peek).err)
       ELSE /\ pstack' = SetTop(pstack, Frame("loop", Top(pstack).lhs))
            /\ UNCHANGED <<presult, phase>>
    /\ UNCHANGED <<pattern, lexVars, evalVars>>

\* parse_expr: one iteration of `while let Some(tok) = self.peek()`
LoopStar ==
    /\ Parsing /\ Top(pstack).pc = "loop"
    /\ peek.kind = "Star"
    /\ pcurr' = next(pcurr)
    /\ pstack' = SetTop(pstack, Frame("loop", parse_star_expr(Top(pstack).lhs)))
    /\ UNCHANGED <<pattern, lexVars, presult, evalVars, phase>>

LoopPlus ==
    /\ Parsing /\ Top(pstack).pc = "loop"
    /\ peek.kind = "Plus"
    /\ pcurr' = next(pcurr)
    /\ pstack' = Append(SetTop(pstack, Frame("plus", Top(pstack).lhs)),
                        Frame("primary", NoExpr))
    /\ UNCHANGED <<pattern, lexVars, presult, evalVars, phase>>

LoopDot ==
    /\ Parsing /\ Top(pstack).pc = "loop"
    /\ peek.kind = "Dot"
    /\ pcurr' = next(pcurr)
    /\ pstack' = Append(SetTop(pstack, Frame("dot", Top(pstack).lhs)),
                        Frame("primary", NoExpr))
    /\ UNCHANGED <<pattern, lexVars, presult, evalVars, phase>>

\* TokenKind::RightParen => break, then Ok(lhs)
LoopRightParen ==
    /\ Parsing /\ Top(pstack).pc = "loop"
    /\ peek.kind = "RightParen"
    /\ Return(Top(pstack).lhs)
    /\ UNCHANGED <<pattern, lexVars, pcurr, evalVars>>

\* self.peek() is None: the loop ends, Ok(lhs)
LoopEnd ==
    /\ Parsing /\ Top(pstack).pc = "loop"
    /\ peek = NoToken
    /\ Return(Top(pstack).lhs)
    /\ UNCHANGED <<pattern, lexVars, pcurr, evalVars>>

\* _ => return Err(ParseError::ExpectedExpression)
LoopOther ==
    /\ Parsing /\ Top(pstack).pc = "loop"
    /\ peek.kind \in {"Alphabet", "LeftParen"}
    /\ Fail("ExpectedExpression")
    /\ UNCHANGED <<pattern, lexVars, pcurr, evalVars>>

----------------------------------------------------------------------------
(* Eval *)

\* an Eval::eval call: its expression, where it stands, and (for the
\* properties only) the value of self.curr when it was called
EFrame(expr, pc, c0) == [expr |-> expr, pc |-> pc, c0 |-> c0]

Evaluating == phase = "eval" /\ estack # <<>>

\* Eval::expect: the slice panics when it ends past the end of target
expect(s) ==
    IF ecurr + Len(s) > Len(target)
    THEN [res |-> "panic", curr |-> ecurr]
    ELSE IF SubSeq(target, ecurr + 1, ecurr + Len(s)) # s
         THEN [res |-> "false", curr |-> ecurr]
         ELSE [res |-> "true", curr |-> ecurr + Len(s)]

Panic ==
    /\ eresult' = "panic"
    /\ estack' = <<>>
    /\ phase' = "done"

\* Eval::new(target), then eval.eval(Box::new(parser.parse().unwrap()))
EvalNew ==
    /\ phase = "parsed"
    /\ \E t \in Targets :
        /\ target' = t
        /\ ecurr' = 0
        /\ estack' = <<EFrame(presult.expr, "enter", 0)>>
    /\ phase' = "eval"
    /\ UNCHANGED <<pattern, lexVars, parseVars, eret, eresult>>

\* Expr::Alphabet(alphabet) => self.eval_alphabet(alphabet)
EvalAlphabet ==
    /\ Evaluating /\ Top(estack).pc = "enter"
    /\ Top(estack).expr.kind = "Alphabet"
    /\ LET r == expect(Top(estack).expr.text)
       IN  IF r.res = "panic"
           THEN Panic /\ UNCHANGED <<ecurr, eret>>
           ELSE /\ ecurr' = r.curr
                /\ eret' = r.res
                /\ estack' = Pop(estack)
                /\ UNCHANGED <<eresult, phase>>
    /\ UNCHANGED <<pattern, lexVars, parseVars, target>>

\* Expr::Star(e) => self.eval_star(e), which calls self.eval(expr)
EvalStar ==
    /\ Evaluating /\ Top(estack).pc = "enter"
    /\ Top(estack).expr.kind = "Star"
    /\ estack' = Append(SetTop(estack, [Top(estack) EXCEPT !.pc = "star"]),
                        EFrame(Top(estack).expr.e, "enter", ecurr))
    /\ UNCHANGED <<pattern, lexVars, parseVars, target, ecurr, eret, eresult, phase>>

\* eval_star returns what self.eval(expr) returned
EvalStarReturn ==
    /\ Evaluating /\ Top(estack).pc = "star"
    /\ eret # "none"
    /\ estack' = Pop(estack)
    /\ UNCHANGED <<pattern, lexVars, parseVars, target, ecurr, eret, eresult, phase>>

\* Expr::Plus(lhs, rhs) => self.eval_plus(lhs, rhs), which calls self.eval(lhs)
EvalPlus ==
    /\ Evaluating /\ Top(estack).pc = "enter"
    /\ Top(estack).expr.kind = "Plus"
    /\ estack' = Append(SetTop(estack, [Top(estack) EXCEPT !.pc = "lhs"]),
                        EFrame(Top(estack).expr.lhs, "enter", ecurr))
    /\ UNCHANGED <<pattern, lexVars, parseVars, target, ecurr, eret, eresult, phase>>

\* if self.eval(lhs) { return true; }  self.eval(rhs)
EvalPlusLhs ==
    /\ Evaluating /\ Top(estack).pc = "lhs"
    /\ eret # "none"
    /\ IF eret = "true"
       THEN /\ estack' = Pop(estack)
            /\ UNCHANGED eret
       ELSE /\ estack' = Append(SetTop(estack, [Top(estack) EXCEPT !.pc = "rhs"]),
                                EFrame(Top(estack).expr.rhs, "enter", ecurr))
            /\ eret' = "none"
    /\ UNCHANGED <<pattern, lexVars, parseVars, target, ecurr, eresult, phase>>

\* eval_plus returns what self.eval(rhs) returned
EvalPlusRhs ==
    /\ Evaluating /\ Top(estack).pc = "rhs"
    /\ eret # "none"
    /\ estack' = Pop(estack)
    /\ UNCHANGED <<pattern, lexVars, parseVars, target, ecurr, eret, eresult, phase>>

\* _ => todo!()
EvalTodo ==
    /\ Evaluating /\ Top(estack).pc = "enter"
    /\ Top(estack).expr.kind = "Dot"
    /\ Panic
    /\ UNCHANGED <<pattern, lexVars, parseVars, target, ecurr, eret>>

\* the outermost eval call returns to the caller
EvalReturn ==
    /\ phase = "eval" /\ estack = <<>>
    /\ eret # "none"
    /\ eresult' = eret
    /\ phase' = "done"
    /\ UNCHANGED <<pattern, lexVars, parseVars, target, ecurr, estack, eret>>

----------------------------------------------------------------------------
(* The pipeline *)

Init ==
    /\ pattern \in Patterns
    /\ it = 0
    /\ tokens = <<>>
    /\ lexErr = <<>>
    /\ pcurr = 0
    /\ pstack = <<>>
    /\ presult = NoResult
    /\ target = <<>>
    /\ ecurr = 0
    /\ estack = <<>>
    /\ eret = "none"
    /\ eresult = "none"
    /\ phase = "lex"

Next ==
    \/ LexSpace \/ LexPlus \/ LexStar \/ LexLeftParen \/ LexRightParen \/ LexDot
    \/ LexAlphabet \/ LexUnknown \/ LexEnd
    \/ ParserFrom
    \/ PrimaryNone \/ PrimaryAlphabet \/ PrimaryLeftParen \/ PrimaryOther \/ PrimaryClose
    \/ LoopStar \/ LoopPlus \/ LoopDot \/ LoopRightParen \/ LoopEnd \/ LoopOther
    \/ EvalNew \/ EvalAlphabet \/ EvalStar \/ EvalStarReturn
    \/ EvalPlus \/ EvalPlusLhs \/ EvalPlusRhs \/ EvalTodo \/ EvalReturn

Spec == Init /\ [][Next]_vars

----------------------------------------------------------------------------
(* What the properties are stated with *)

LexOk == phase # "lex" /\ lexErr = <<>>
ParseOk == presult.status = "Ok"
\* the tokens the parser has consumed
Consumed == SubSeq(tokens, 1, pcurr)
AtBoundary == pcurr = Len(tokens) \/ tokens[pcurr + 1].kind = "RightParen"

Min(S) == CHOOSE x \in S : \A y \in S : x <= y

\* number of '(' still open after the first k tokens (a ')' that closes nothing is skipped)
RECURSIVE Open(_, _)
Open(toks, k) ==
    IF k = 0 THEN 0
    ELSE LET d == Open(toks, k - 1)
         IN  CASE toks[k].kind = "LeftParen"  -> d + 1
               [] toks[k].kind = "RightParen" -> IF d > 0 THEN d - 1 ELSE 0
               [] OTHER -> d

HasUnmatchedLeftParen(toks) == Open(toks, Len(toks)) > 0

\* the '+' and '.' of toks that stand outside every parenthesis
TopOps(toks) ==
    {k \in 1..Len(toks) : toks[k].kind \in {"Plus", "Dot"} /\ Open(toks, k) = 0}

MkInfix(kind, l, r) == IF kind = "Plus" THEN Plus(l, r) ELSE Dot(l, r)

\* The grammar of the pattern language, read off a token sequence by splitting it at
\* its first operator outside parentheses:
\*   expr ::= postfix | postfix ('+' | '.') expr
\*   postfix ::= primary '*'*       primary ::= Alphabet | '(' expr ')'
\* NoExpr where the sequence is not of that form.
RECURSIVE GrammarTree(_)
GrammarTree(toks) ==
    IF toks = <<>> THEN NoExpr
    ELSE IF TopOps(toks) # {}
    THEN LET k == Min(TopOps(toks))
         IN  MkInfix(toks[k].kind, GrammarTree(SubSeq(toks, 1, k - 1)),
                                   GrammarTree(SubSeq(toks, k + 1, Len(toks))))
    ELSE IF toks[Len(toks)].kind = "Star"
    THEN Star(GrammarTree(SubSeq(toks, 1, Len(toks) - 1)))
    ELSE IF Len(toks) = 1 /\ toks[1].kind = "Alphabet"
    THEN Alphabet(toks[1].text)
    ELSE IF Len(toks) >= 3 /\ toks[1].kind = "LeftParen" /\ toks[Len(toks)].kind = "RightParen"
    THEN GrammarTree(SubSeq(toks, 2, Len(toks) - 1))
    ELSE NoExpr

\* toks is a sentence of that grammar
RECURSIVE Complete(_)
Complete(e) ==
    CASE e.kind = "None" -> FALSE
      [] e.kind = "Alphabet" -> TRUE
      [] e.kind = "Star" -> Complete(e.e)
      [] OTHER -> Complete(e.lhs) /\ Complete(e.rhs)

Grammatical(toks) == Complete(GrammarTree(toks))

\* toks with a ')' added for every '(' still open
RECURSIVE Closed(_)
Closed(toks) ==
    IF HasUnmatchedLeftParen(toks)
    THEN Closed(Append(toks, to_token("RightParen", <<>>, 0)))
    ELSE toks

\* p1 op1 p2 ... pn: the primaries (each a token sequence) and the operators between
RECURSIVE Primaries(_)
Primaries(toks) ==
    IF TopOps(toks) = {} THEN <<toks>>
    ELSE LET k == Min(TopOps(toks))
         IN  <<SubSeq(toks, 1, k - 1)>> \o Primaries(SubSeq(toks, k + 1, Len(toks)))

RECURSIVE Operators(_)
Operators(toks) ==
    IF TopOps(toks) = {} THEN <<>>
    ELSE LET k == Min(TopOps(toks))
         IN  <<toks[k].kind>> \o Operators(SubSeq(toks, k + 1, Len(toks)))

StarFree(toks) == \A k \in 1..Len(toks) : toks[k].kind # "Star"

\* op1(p1, op2(p2, ... op(n-1)(p(n-1), pn))), from the last primary backwards
RECURSIVE RightNested(_)
RECURSIVE NestFrom(_, _, _)
RightNested(toks) ==
    LET ps  == Primaries(toks)
        ops == Operators(toks)
    IN  NestFrom(ps, ops, 1)
NestFrom(ps, ops, i) ==
    LET p == ps[i]
        tree == IF Len(p) = 1 THEN Alphabet(p[1].text)
                ELSE RightNested(SubSeq(p, 2, Len(p) - 1))
    IN  IF i = Len(ps) THEN tree
        ELSE MkInfix(ops[i], tree, NestFrom(ps, ops, i + 1))

\* The matching of section 4.3 of the specification: the cursors at which a match
\* of e that starts at cursor c of t can end.
RECURSIVE Ends(_, _, _)
RECURSIVE StarEnds(_, _, _)
Ends(e, t, c) ==
    CASE e.kind = "Alphabet" ->
            IF c + Len(e.text) <= Len(t) /\ SubSeq(t, c + 1, c + Len(e.text)) = e.text
            THEN {c + Len(e.text)} ELSE {}
      [] e.kind = "Plus" -> Ends(e.lhs, t, c) \cup Ends(e.rhs, t, c)
      [] e.kind = "Dot"  -> UNION {Ends(e.rhs, t, m) : m \in Ends(e.lhs, t, c)}
      [] e.kind = "Star" -> StarEnds(e.e, t, {c})
StarEnds(e, t, S) ==
    LET S2 == S \cup UNION {Ends(e, t, m) : m \in S}
    IN  IF S2 = S THEN S ELSE StarEnds(e, t, S2)

MatchesAt(e, t, c) == Ends(e, t, c) # {}

\* how many times in a row text occurs in t from cursor c on
RECURSIVE Repetitions(_, _, _)
Repetitions(text, t, c) ==
    IF text # <<>> /\ c + Len(text) <= Len(t) /\ SubSeq(t, c + 1, c + Len(text)) = text
    THEN 1 + Repetitions(text, t, c + Len(text))
    ELSE 0

\* the eval call on the pattern's expression is over (it returned or it panicked)
EvalOver == phase = "done" /\ ParseOk

----------------------------------------------------------------------------
(* C1 *)

\* C1: the match result is true only if the cursor has advanced exactly to the end
\* of the target.
WholeStringMatch == eresult = "true" => ecurr = Len(target)

(* C2 *)

\* C2: eval of every parsed expression on every target ends with a boolean, never
\* with a fault.
MatchingTotal == EvalOver => eresult \in {"true", "false"}

(* C3 *)

\* C3: no Star call returns false (zero repetitions always match), and the Star of a
\* literal ends true with the cursor past all the consecutive occurrences of the
\* literal.
StarZeroOrMore ==
    /\ (Evaluating /\ Top(estack).pc = "star") => eret # "false"
    /\ (EvalOver /\ presult.expr.kind = "Star" /\ presult.expr.e.kind = "Alphabet")
         => /\ eresult = "true"
            /\ ecurr = Len(presult.expr.e.text) * Repetitions(presult.expr.e.text, target, 0)

(* C4 *)

\* C4: Plus(lhs, rhs) succeeds iff lhs matches at the cursor or rhs matches at the
\* cursor; rhs is tried only after lhs failed, from the cursor Plus was entered with.
PlusAlternation ==
    /\ (EvalOver /\ presult.expr.kind = "Plus")
         => (eresult = "true" <=> (\/ MatchesAt(presult.expr.lhs, target, 0)
                                   \/ MatchesAt(presult.expr.rhs, target, 0)))
    /\ \A i \in 1..Len(estack) :
         estack[i].pc = "rhs" => (i < Len(estack) => estack[i + 1].c0 = estack[i].c0)

(* C5 *)

\* the token sequence is p1 op1 p2 ... pn with n >= 2 and no '*'
IsChain(toks) == StarFree(toks) /\ TopOps(toks) # {}

\* C5: a sequence of primaries separated by '+' and '.' parses to the fully
\* right-nested tree op1(p1, op2(p2, ... pn)).
RightAssociative ==
    (ParseOk /\ IsChain(Consumed)) => presult.expr = RightNested(Consumed)

RightAssociativeWitness ==
    /\ ParseOk
    /\ IsChain(Consumed)
    /\ Cardinality(TopOps(Consumed)) >= 2
    /\ presult.expr.rhs.kind \in {"Plus", "Dot"}

(* C6 *)

\* C6: every pattern with an unmatched '(' fails with ExpectedClosingParen.
UnmatchedParenIsExpectedClosingParen ==
    (phase \in {"parsed", "done"} /\ LexOk /\ HasUnmatchedLeftParen(tokens))
        => presult = Err("ExpectedClosingParen")

\* C6 as amended: a parse that has consumed an unmatched '(' does not succeed;
\* ExpectedClosingParen is returned only at the end of the input, after a complete
\* inner expression, and is returned whenever adding the missing ')' at the end
\* gives a well-formed pattern; when the input ends with '(' or an operator inside
\* the group, the error is ExpectedExpression.
UnmatchedParenFails ==
    /\ ParseOk => ~HasUnmatchedLeftParen(Consumed)
    /\ presult = Err("ExpectedClosingParen")
         => /\ pcurr = Len(tokens)
            /\ HasUnmatchedLeftParen(tokens)
            /\ tokens[Len(tokens)].kind \in {"Alphabet", "Star", "RightParen"}
    /\ (/\ presult.status = "Err" /\ LexOk /\ HasUnmatchedLeftParen(tokens)
        /\ tokens[Len(tokens)].kind \in {"LeftParen", "Plus", "Dot"})
         => presult = Err("ExpectedExpression")
    /\ (/\ phase \in {"parsed", "done"} /\ LexOk /\ HasUnmatchedLeftParen(tokens)
        /\ Grammatical(Closed(tokens)))
         => presult = Err("ExpectedClosingParen")

UnmatchedParenWitness ==
    /\ phase = "done"
    /\ HasUnmatchedLeftParen(tokens)
    /\ presult = Err("ExpectedClosingParen")
    /\ Len(tokens) >= 3

(* C7 *)

\* the tokens of s, positions counted in characters
RECURSIVE CharTokens(_, _)
CharTokens(s, p) ==
    IF p > Len(s) THEN <<>>
    ELSE IF s[p] \in {"+", "*", "(", ")", "."}
    THEN <<to_token(SymbolKind(s[p]), <<>>, p - 1)>> \o CharTokens(s, p + 1)
    ELSE IF IsAlnum(s[p])
    THEN LET n == 1 + AlnumRun(s, p + 1)
         IN  <<to_token("Alphabet", SubSeq(s, p, p + n - 1), p - 1)>> \o CharTokens(s, p + n)
    ELSE CharTokens(s, p + 1)

\* C7: a pattern that tokenizes gives one token per symbol and one Alphabet token
\* per maximal run, each at the character index of its first character.
TokenizerOutput ==
    (LexOk /\ phase # "lex") => tokens = CharTokens(pattern, 1)

(* C8 *)

\* C8: tokenize fails only on a character that is neither alphanumeric, nor one of
\* + * . ( ), nor whitespace.
WhitespaceSkipped ==
    lexErr # <<>> => ~IsWhitespace(lexErr[1])

(* C9 *)

\* C9: each '*' wraps the primary before it (and the stars already applied to it),
\* never an enclosing Plus or Dot: the tree is the one of the grammar
\* expr ::= primary '*'* (('+' | '.') expr)?.
StarIsPostfix ==
    ParseOk => presult.expr = GrammarTree(Consumed)

StarIsPostfixWitness ==
    /\ ParseOk
    /\ presult.expr.kind = "Plus"
    /\ presult.expr.rhs.kind = "Star"
    /\ presult.expr.rhs.e.kind = "Alphabet"

(* C10 *)

\* what is left of the parse: decreases with every step of it
Measure == 2 * (Len(tokens) - pcurr) + Len(pstack)

\* C10: 0 <= curr <= number of tokens; no step moves the cursor back; every
\* iteration of the loop of parse_expr consumes a token and every step of a parse
\* brings it nearer its end; a parse call that returns Ok leaves the cursor at the
\* end of the input or at a RightParen.
CursorDiscipline ==
    /\ [](pcurr \in 0..Len(tokens))
    /\ [][pcurr' >= pcurr]_vars
    /\ [][(LoopStar \/ LoopPlus \/ LoopDot) => pcurr' > pcurr]_vars
    /\ [][(phase = "parse") => Measure' < Measure]_vars
    /\ []((ParseOk \/ (Parsing /\ Top(pstack).pc = "close")) => AtBoundary)

CursorDisciplineWitness ==
    /\ Parsing
    /\ Len(pstack) >= 2
    /\ Top(pstack).pc = "close"
    /\ pcurr < Len(tokens)

====
